---- MODULE Spec2Model ----
(***************************************************************************)
(* Financial markets pipeline: three lanes (stocks, crypto, forex), each   *)
(* extract -> transform -> load, orchestrated by the DAG of                 *)
(* dags/markets_pipeline_dag.py.                                            *)
(*                                                                          *)
(* Numbers are integers counting hundredths (150.00 is 15000, 1.23 is 123). *)
(* A JSON / Python value is a record [k, n, s]: its kind, its number and    *)
(* its text.                                                                *)
(***************************************************************************)
EXTENDS Integers, Sequences, FiniteSets, TLC

VARIABLES
    state,        \* per lane: Idle, Extracting, Transforming, Loading, Done, Failed
    xcom,         \* the values the tasks of the DAG run pushed, by key
    tables,       \* the tables that exist in the database
    store,        \* per table: its rows, oldest first
    store0,       \* per table: the rows it had when the run began
    wrote,        \* per lane: what the database did with its write: none, ok, failed
    ran,          \* per lane: the tasks that ran, in order
    invoked,      \* per lane: the components whose method was called
    exc,          \* per lane: the exception that failed it, "none" if none
    tkind,        \* transformer under test: "stocks", "crypto" or "forex"
    tin,          \* the argument handed to transform
    tout,         \* what transform did: Pending, or [exc, rows]
    clock,        \* datetime.now()
    dresps,       \* demo run: the stocks provider's answer for each symbol
    dcalled,      \* demo run: the pipelines main called, in order
    dexit,        \* demo run: "running", "completed" or "exit1"
    xkind,        \* extractor under test: "stocks", "crypto" or "forex"
    xreq,         \* what the extractor is asked for
    xresps,       \* the provider's answer to each request the extractor makes
    xpc,          \* extractor: "idle", "call", "pause" or "done"
    xi,           \* extract_multiple_stocks: the loop's index i
    xresults,     \* extract_multiple_stocks: results so far
    xlog,         \* the requests sent and the pauses taken, in order
    xout,         \* what the extractor did: XPending, or [exc, val]
    lcall,        \* the last operation on the database: [op, name, df, ok, ret]
    ln,           \* the number of operations on the database so far
    loader        \* whether a DataLoader has been constructed

pvars == <<state, xcom, tables, store, store0, wrote, ran, invoked, exc>>
tvars == <<tkind, tin, tout>>
dvars == <<dresps, dcalled, dexit>>
xvars == <<xkind, xreq, xresps, xpc, xi, xresults, xlog, xout>>
lvars == <<lcall, ln, loader>>
vars == <<state, xcom, tables, store, store0, wrote, ran, invoked, exc,
          tkind, tin, tout, clock, dresps, dcalled, dexit,
          xkind, xreq, xresps, xpc, xi, xresults, xlog, xout, lcall, ln, loader>>

Lanes == {"stocks", "crypto", "forex"}

\* ------------------------------------------------------------------ bounds
MaxBatch == 2     \* records in one batch handed to a transformer
MaxClock == 1     \* ticks of the clock

\* ------------------------------------------------------------ JSON values
V(k, n, s) == [k |-> k, n |-> n, s |-> s]
Missing == V("missing", 0, "")      \* the key is absent
Null == V("null", 0, "")            \* None
Num(n) == V("num", n, "")           \* a JSON number
IntStr(n) == V("intstr", n, "")     \* "150"
DecStr(n) == V("decstr", n, "")     \* "1.23"
PctStr(n) == V("pctstr", n, "")     \* "1.23%"
NanStr == V("nanstr", 0, "")        \* "nan"
Text(s) == V("text", 0, s)          \* any other string
Dict == V("dict", 0, "")            \* a dict (its items are held beside it)
List == V("list", 0, "")            \* a list
PyTrue == V("bool", 100, "")        \* true: bool is an int, True == 1

StrKinds == {"intstr", "decstr", "pctstr", "nanstr", "text"}

\* A float: NaN or a number.
F(n) == [nan |-> FALSE, n |-> n]
NaN == [nan |-> TRUE, n |-> 0]

\* The outcome of evaluating an expression: a value or an exception.
Ok(v) == [exc |-> "none", val |-> v]
Raise(e) == [exc |-> e, val |-> NaN]

\* dict.get(key, default)
DictGet(d, key, default) == IF d[key].k = "missing" THEN default ELSE d[key]

\* float(v)
PyFloat(v) ==
    CASE v.k \in {"num", "intstr", "decstr", "bool"} -> Ok(F(v.n))
      [] v.k = "nanstr" -> Ok(NaN)
      [] v.k \in {"pctstr", "text"} -> Raise("ValueError")
      [] OTHER -> Raise("TypeError")

Trunc(n) == IF n >= 0 THEN (n \div 100) * 100 ELSE 0 - (((0 - n) \div 100) * 100)

\* int(v)
PyInt(v) ==
    CASE v.k = "num" -> Ok(F(Trunc(v.n)))
      [] v.k \in {"intstr", "bool"} -> Ok(F(v.n))
      [] v.k \in {"decstr", "pctstr", "nanstr", "text"} -> Raise("ValueError")
      [] OTHER -> Raise("TypeError")

\* v.replace('%', ''): the string without its percent signs; only a str has it.
PyReplacePct(v) ==
    IF v.k \in StrKinds
    THEN [exc |-> "none", val |-> IF v.k = "pctstr" THEN DecStr(v.n) ELSE v]
    ELSE [exc |-> "AttributeError", val |-> v]

\* pd.to_numeric(v, errors='coerce')
ToNumericCoerce(v) ==
    IF v.k \in {"num", "intstr", "decstr"} THEN F(v.n) ELSE NaN

\* series.fillna(0)
FillNa0(f) == IF f.nan THEN F(0) ELSE f

\* The first exception of a left-to-right evaluation, "none" if there is none.
FirstExc(excs) ==
    IF \E i \in 1..Len(excs) : excs[i] # "none"
    THEN excs[CHOOSE i \in 1..Len(excs) :
                /\ excs[i] # "none"
                /\ \A j \in 1..(i - 1) : excs[j] = "none"]
    ELSE "none"

\* What a transformer call did: raised, or returned a frame of rows.
Raised(e) == [exc |-> e, rows |-> <<>>]
Frame(rows) == [exc |-> "none", rows |-> rows]
Pending == [exc |-> "pending", rows |-> <<>>]     \* transform has not been called

\* s.upper() and s.capitalize() on the texts the inputs use.
Upper(s) ==
    CASE s = "btc" -> "BTC" [] s = "eth" -> "ETH"
      [] s = "bitcoin" -> "BITCOIN" [] s = "ethereum" -> "ETHEREUM"
      [] OTHER -> s
Capitalize(s) ==
    CASE s = "bitcoin" -> "Bitcoin" [] s = "ethereum" -> "Ethereum"
      [] OTHER -> s

\* v.upper(), v.capitalize(): only a str has them.
PyUpper(v) ==
    IF v.k \in StrKinds
    THEN [exc |-> "none", val |-> IF v.k = "text" THEN Text(Upper(v.s)) ELSE v]
    ELSE [exc |-> "AttributeError", val |-> v]
PyCapitalize(v) ==
    IF v.k \in StrKinds
    THEN [exc |-> "none", val |-> IF v.k = "text" THEN Text(Capitalize(v.s)) ELSE v]
    ELSE [exc |-> "AttributeError", val |-> v]

\* ------------------------------------------------------ StocksTransformer
QuoteKeys == {"01. symbol", "02. open", "03. high", "04. low", "05. price", "06. volume",
              "07. latest trading day", "08. previous close", "09. change",
              "10. change percent"}

\* The exceptions of the dict literal of lines 36-49, in source order.
StockFieldExcs(quote) ==
    << PyFloat(DictGet(quote, "05. price", Num(0))).exc,
       PyFloat(DictGet(quote, "02. open", Num(0))).exc,
       PyFloat(DictGet(quote, "03. high", Num(0))).exc,
       PyFloat(DictGet(quote, "04. low", Num(0))).exc,
       PyInt(DictGet(quote, "06. volume", Num(0))).exc,
       PyFloat(DictGet(quote, "08. previous close", Num(0))).exc,
       PyFloat(DictGet(quote, "09. change", Num(0))).exc,
       PyReplacePct(DictGet(quote, "10. change percent", Text(""))).exc >>

\* The row appended for one stock, when nothing raised.
StockRow(stock, now) ==
    LET quote == stock.quote IN
    [ symbol |-> stock.symbol,
      price |-> PyFloat(DictGet(quote, "05. price", Num(0))).val,
      open |-> PyFloat(DictGet(quote, "02. open", Num(0))).val,
      high |-> PyFloat(DictGet(quote, "03. high", Num(0))).val,
      low |-> PyFloat(DictGet(quote, "04. low", Num(0))).val,
      volume |-> PyInt(DictGet(quote, "06. volume", Num(0))).val,
      latest_trading_day |-> DictGet(quote, "07. latest trading day", Null),
      previous_close |-> PyFloat(DictGet(quote, "08. previous close", Num(0))).val,
      change |-> PyFloat(DictGet(quote, "09. change", Num(0))).val,
      change_percent |-> PyReplacePct(DictGet(quote, "10. change percent", Text(""))).val,
      timestamp |-> now,
      extracted_at |-> now ]

\* One pass of the loop body (lines 32-52) for one stock: "row" (appended),
\* "skip" (the except clause caught it) or "raise" (the exception leaves transform).
StockOutcome(stock) ==
    IF stock.symbol.k = "missing" \/ stock.data.k = "missing"
    THEN [did |-> "raise", exc |-> "KeyError"]          \* lines 32-33, outside the try
    ELSE IF stock.data.k # "dict"
    THEN [did |-> "raise", exc |-> "AttributeError"]    \* quote.get on a non-dict
    ELSE LET e == FirstExc(StockFieldExcs(stock.quote)) IN
         IF e = "none" THEN [did |-> "row", exc |-> "none"]
         ELSE IF e \in {"ValueError", "KeyError"} THEN [did |-> "skip", exc |-> e]
         ELSE [did |-> "raise", exc |-> e]

RECURSIVE StocksLoop(_, _)
\* The for loop of lines 31-52: the rows appended, or the exception that left it.
StocksLoop(items, now) ==
    IF items = <<>> THEN Frame(<<>>)
    ELSE LET o == StockOutcome(Head(items)) IN
         IF o.did = "raise" THEN Raised(o.exc)
         ELSE LET rest == StocksLoop(Tail(items), now) IN
              IF rest.exc # "none" THEN rest
              ELSE IF o.did = "row"
                   THEN Frame(<<StockRow(Head(items), now)>> \o rest.rows)
                   ELSE rest

\* df.dropna(subset=['symbol', 'price'])
StockDropNa(row) == row.symbol.k # "null" /\ ~row.price.nan

\* A quality pass without pd.to_numeric: the change percent stays the string
\* that str.replace('%', '') left.
StockCleanKeepsString(row) == row

\* Lines 60-66 on one kept row.
StockClean(row) ==
    [row EXCEPT !.change_percent = FillNa0(ToNumericCoerce(row.change_percent))]

\* StocksTransformer.transform(stocks_data)
StocksTransform(data, now) ==
    CASE data.k = "null" -> Raised("TypeError")          \* for ... in None
      [] data.k = "dict" ->                              \* iterates the keys: str['symbol']
            IF data.items = <<>> THEN Frame(<<>>) ELSE Raised("TypeError")
      [] OTHER ->
            LET looped == StocksLoop(data.items, now) IN
            IF looped.exc # "none" THEN looped
            ELSE IF looped.rows = <<>> THEN Frame(<<>>)
            ELSE LET kept == SelectSeq(looped.rows, StockDropNa) IN
                 Frame([i \in 1..Len(kept) |-> StockClean(kept[i])])

\* ------------------------------------------------------ CryptoTransformer
\* A crypto element is [self, top, data, md, mdusd]: the kind of the element
\* itself, its own keys, the keys of its 'data' dict, the keys of its
\* 'market_data' dict and the 'usd' entry of each dict under 'market_data'.
PriceKeys == {"usd", "usd_market_cap", "usd_24h_vol", "usd_24h_change",
              "current_price", "market_cap", "total_volume",
              "price_change_percentage_24h"}
TopKeys == {"id", "symbol", "name", "data", "market_data"} \cup PriceKeys
MdKeys == {"current_price", "market_cap", "total_volume",
           "price_change_percentage_24h"}
MdUsdKeys == {"current_price", "market_cap", "total_volume"}

\* float(crypto['market_data'][key].get('usd', 0)), lines 40-42
MdUsdFloat(crypto, key) ==
    CASE crypto.top["market_data"].k # "dict" -> Raise("TypeError")    \* not subscriptable
      [] crypto.md[key].k = "missing" -> Raise("KeyError")
      [] crypto.md[key].k # "dict" -> Raise("AttributeError")          \* no .get
      [] OTHER -> PyFloat(DictGet(crypto.mdusd, key, Num(0)))

\* float(crypto['market_data'].get('price_change_percentage_24h', 0)), line 43
MdChangeFloat(crypto) ==
    IF crypto.top["market_data"].k # "dict" THEN Raise("TypeError")
    ELSE PyFloat(DictGet(crypto.md, "price_change_percentage_24h", Num(0)))

\* crypto.get('symbol', '').upper(), line 38
DetailedSymbol(crypto) == PyUpper(DictGet(crypto.top, "symbol", Text("")))

DetailedExcs(crypto) ==
    << DetailedSymbol(crypto).exc,
       MdUsdFloat(crypto, "current_price").exc,
       MdUsdFloat(crypto, "market_cap").exc,
       MdUsdFloat(crypto, "total_volume").exc,
       MdChangeFloat(crypto).exc >>

DetailedRow(crypto, now) ==
    [ symbol |-> DetailedSymbol(crypto).val,
      name |-> DictGet(crypto.top, "name", Null),
      current_price |-> MdUsdFloat(crypto, "current_price").val,
      market_cap |-> MdUsdFloat(crypto, "market_cap").val,
      total_volume |-> MdUsdFloat(crypto, "total_volume").val,
      price_change_24h |-> MdChangeFloat(crypto).val,
      timestamp |-> now,
      extracted_at |-> now ]

\* coin_id = crypto.get('id', ''), line 49
CoinId(crypto) == DictGet(crypto.top, "id", Text(""))

\* data = crypto.get('data', crypto), line 50: the kind of data
DataKind(crypto) ==
    IF crypto.top["data"].k = "missing" THEN "dict" ELSE crypto.top["data"].k

\* data.get(key, default) where data is a dict: crypto itself when it has no 'data'
DataGet(crypto, key, default) ==
    IF crypto.top["data"].k = "missing"
    THEN DictGet(crypto.top, key, default)
    ELSE DictGet(crypto.data, key, default)

\* float(data.get(first, data.get(second, 0))), lines 55-58
DataFloat(crypto, first, second) ==
    IF DataKind(crypto) # "dict" THEN Raise("AttributeError")
    ELSE PyFloat(DataGet(crypto, first, DataGet(crypto, second, Num(0))))

\* crypto.get('symbol', coin_id).upper(), line 53
SimpleSymbol(crypto) == PyUpper(DictGet(crypto.top, "symbol", CoinId(crypto)))

\* crypto.get('name', coin_id.capitalize()), line 54: the default is evaluated first
SimpleName(crypto) ==
    LET cap == PyCapitalize(CoinId(crypto)) IN
    IF cap.exc # "none" THEN cap
    ELSE [exc |-> "none", val |-> DictGet(crypto.top, "name", cap.val)]

SimpleExcs(crypto) ==
    << SimpleSymbol(crypto).exc,
       SimpleName(crypto).exc,
       DataFloat(crypto, "usd", "current_price").exc,
       DataFloat(crypto, "usd_market_cap", "market_cap").exc,
       DataFloat(crypto, "usd_24h_vol", "total_volume").exc,
       DataFloat(crypto, "usd_24h_change", "price_change_percentage_24h").exc >>

SimpleRow(crypto, now) ==
    [ symbol |-> SimpleSymbol(crypto).val,
      name |-> SimpleName(crypto).val,
      current_price |-> DataFloat(crypto, "usd", "current_price").val,
      market_cap |-> DataFloat(crypto, "usd_market_cap", "market_cap").val,
      total_volume |-> DataFloat(crypto, "usd_24h_vol", "total_volume").val,
      price_change_24h |->
          DataFloat(crypto, "usd_24h_change", "price_change_percentage_24h").val,
      timestamp |-> now,
      extracted_at |-> now ]

\* A transformer that never looks for 'market_data': every record takes the
\* else branch.
HasMarketDataNever(crypto) == FALSE

\* 'market_data' in crypto, line 35
HasMarketData(crypto) == crypto.top["market_data"].k # "missing"

\* The exception of one pass of the try body (lines 33-64), "none" if it appends.
CryptoExc(crypto) ==
    CASE crypto.self.k \in {"null", "num"} -> "TypeError"       \* 'market_data' in crypto
      [] crypto.self.k \in {"text", "list"} -> "AttributeError" \* crypto.get
      [] HasMarketData(crypto) -> FirstExc(DetailedExcs(crypto))
      [] OTHER -> FirstExc(SimpleExcs(crypto))

\* One pass of the loop body for one element: "row", "skip" or "raise".
CryptoOutcome(crypto) ==
    LET e == CryptoExc(crypto) IN
    IF e = "none" THEN [did |-> "row", exc |-> "none"]
    ELSE IF e \in {"ValueError", "KeyError", "TypeError"} THEN [did |-> "skip", exc |-> e]
    ELSE [did |-> "raise", exc |-> e]

CryptoRow(crypto, now) ==
    IF HasMarketData(crypto) THEN DetailedRow(crypto, now) ELSE SimpleRow(crypto, now)

RECURSIVE CryptoLoop(_, _)
\* The for loop of lines 32-67.
CryptoLoop(items, now) ==
    IF items = <<>> THEN Frame(<<>>)
    ELSE LET o == CryptoOutcome(Head(items)) IN
         IF o.did = "raise" THEN Raised(o.exc)
         ELSE LET rest == CryptoLoop(Tail(items), now) IN
              IF rest.exc # "none" THEN rest
              ELSE IF o.did = "row"
                   THEN Frame(<<CryptoRow(Head(items), now)>> \o rest.rows)
                   ELSE rest

\* df.dropna(subset=['symbol', 'current_price'])
CryptoDropNa(row) == row.symbol.k # "null" /\ ~row.current_price.nan

\* Lines 75-79 on one kept row.
CryptoClean(row) ==
    [row EXCEPT !.market_cap = FillNa0(row.market_cap),
                !.price_change_24h = FillNa0(row.price_change_24h)]

\* CryptoTransformer.transform(crypto_data)
CryptoTransform(data, now) ==
    CASE data.k = "null" \/ data.items = <<>> -> Frame(<<>>)   \* not crypto_data
      [] data.k = "dict" -> Raised("AttributeError")           \* iterates the keys: str.get
      [] OTHER ->
            LET looped == CryptoLoop(data.items, now) IN
            IF looped.exc # "none" THEN looped
            ELSE IF looped.rows = <<>> THEN Frame(<<>>)
            ELSE LET kept == SelectSeq(looped.rows, CryptoDropNa) IN
                 Frame([i \in 1..Len(kept) |-> CryptoClean(kept[i])])

\* ------------------------------------------------------- ForexTransformer
\* forex_data is [k, base, date, rates, items]: its kind, its 'base' and 'date',
\* the kind of its 'rates' and the (currency, rate) pairs of rates.items().

\* One pass of the loop body (lines 40-51) for one rate.
ForexOutcome(item) ==
    LET e == PyFloat(item.rate).exc IN
    IF e = "none" THEN [did |-> "row", exc |-> "none"]
    ELSE IF e \in {"ValueError", "TypeError"} THEN [did |-> "skip", exc |-> e]
    ELSE [did |-> "raise", exc |-> e]

\* A row whose rate_date falls back on today when the provider gave no date.
ForexRowDatedToday(base, date, item, now) ==
    [ base_currency |-> base,
      target_currency |-> item.cur,
      exchange_rate |-> PyFloat(item.rate).val,
      rate_date |-> IF date.k = "null" THEN Num(now) ELSE date,
      timestamp |-> now,
      extracted_at |-> now ]

ForexRow(base, date, item, now) ==
    [ base_currency |-> base,
      target_currency |-> item.cur,
      exchange_rate |-> PyFloat(item.rate).val,
      rate_date |-> date,
      timestamp |-> now,
      extracted_at |-> now ]

RECURSIVE ForexLoop(_, _, _, _)
\* The for loop of lines 39-51.
ForexLoop(base, date, items, now) ==
    IF items = <<>> THEN Frame(<<>>)
    ELSE LET o == ForexOutcome(Head(items)) IN
         IF o.did = "raise" THEN Raised(o.exc)
         ELSE LET rest == ForexLoop(base, date, Tail(items), now) IN
              IF rest.exc # "none" THEN rest
              ELSE IF o.did = "row"
                   THEN Frame(<<ForexRow(base, date, Head(items), now)>> \o rest.rows)
                   ELSE rest

\* df.dropna(subset=['base_currency', 'target_currency', 'exchange_rate'])
ForexDropNa(row) ==
    /\ row.base_currency.k # "null"
    /\ row.target_currency.k # "null"
    /\ ~row.exchange_rate.nan

\* ForexTransformer.transform(forex_data)
ForexTransform(data, now) ==
    CASE data.k = "null" -> Frame(<<>>)                        \* not forex_data
      [] data.rates.k = "missing" -> Frame(<<>>)               \* 'rates' not in forex_data
      [] data.base.k = "missing" -> Raised("KeyError")         \* forex_data['base']
      [] data.rates.k # "dict" -> Raised("AttributeError")     \* rates.items()
      [] OTHER ->
            LET looped == ForexLoop(data.base, DictGet(data, "date", Null),
                                    data.items, now) IN
            IF looped.exc # "none" THEN looped
            ELSE IF looped.rows = <<>> THEN Frame(<<>>)
            ELSE Frame(SelectSeq(looped.rows, ForexDropNa))

\* ------------------------------------------------- inputs of the transformers
GoodQuote ==
    [key \in QuoteKeys |->
        CASE key = "01. symbol" -> Text("AAPL")
          [] key = "05. price" -> DecStr(15000)
          [] key = "06. volume" -> IntStr(100)
          [] key = "07. latest trading day" -> Text("2024-01-02")
          [] key = "10. change percent" -> PctStr(123)
          [] OTHER -> DecStr(150)]

Stock(symbol, quote) == [symbol |-> symbol, data |-> Dict, quote |-> quote]
GoodStock == Stock(Text("AAPL"), GoodQuote)

FieldValues == {Missing, Null, Num(150), IntStr(200), DecStr(250), PctStr(150),
                NanStr, Text("n/a")}

\* One stock record per way a single field can be off.
StockRecs ==
    {GoodStock, Stock(Text("MSFT"), [GoodQuote EXCEPT !["05. price"] = Num(30000)])}
    \cup {Stock(Text("AAPL"), [GoodQuote EXCEPT ![key] = v]) :
            key \in {"05. price", "06. volume", "10. change percent"}, v \in FieldValues}
    \cup {Stock(Text("AAPL"), [GoodQuote EXCEPT ![key] = v]) :
            key \in {"02. open", "09. change"}, v \in {Missing, Null, Text("n/a")}}
    \cup {Stock(s, GoodQuote) : s \in {Null, Missing}}
    \cup {[symbol |-> Text("AAPL"), data |-> d, quote |-> [key \in QuoteKeys |-> Missing]] :
            d \in {Missing, Text("limit reached")}}

Batches(S) == UNION {[1..n -> S] : n \in 0..MaxBatch}

PyList(items) == [k |-> "list", items |-> items]
PyNone == [k |-> "null", items |-> <<>>]

StockInputs == {PyNone} \cup {PyList(b) : b \in Batches(StockRecs)}

NoTop == [key \in TopKeys |-> Missing]
NoData == [key \in PriceKeys |-> Missing]
NoMd == [key \in MdKeys |-> Missing]
NoMdUsd == [key \in MdUsdKeys |-> Missing]

Crypto(top, data, md, mdusd) ==
    [self |-> Dict, top |-> top, data |-> data, md |-> md, mdusd |-> mdusd]

\* The coins/markets shape (tests/test_pipeline.py, lines 54-62).
MarketsTop ==
    [NoTop EXCEPT !["id"] = Text("bitcoin"), !["symbol"] = Text("btc"),
                  !["name"] = Text("Bitcoin"), !["current_price"] = Num(4500000),
                  !["market_cap"] = Num(8500), !["total_volume"] = Num(2500),
                  !["price_change_percentage_24h"] = Num(250)]
\* The simple/price shape (extract_crypto_prices, lines 43-47).
SimpleTop == [NoTop EXCEPT !["id"] = Text("ethereum"), !["data"] = Dict]
SimpleData ==
    [NoData EXCEPT !["usd"] = Num(300000), !["usd_market_cap"] = Num(3600),
                   !["usd_24h_vol"] = Num(1500), !["usd_24h_change"] = Num(-120)]
\* The detailed shape (market_data).
DetailedTop ==
    [NoTop EXCEPT !["id"] = Text("bitcoin"), !["symbol"] = Text("btc"),
                  !["name"] = Text("Bitcoin"), !["market_data"] = Dict]
DetailedMd ==
    [NoMd EXCEPT !["current_price"] = Dict, !["market_cap"] = Dict,
                 !["total_volume"] = Dict,
                 !["price_change_percentage_24h"] = Num(250)]
DetailedMdUsd ==
    [NoMdUsd EXCEPT !["current_price"] = Num(4500000), !["market_cap"] = Num(8500),
                    !["total_volume"] = Num(2500)]

GoodMarkets == Crypto(MarketsTop, NoData, NoMd, NoMdUsd)
GoodSimple == Crypto(SimpleTop, SimpleData, NoMd, NoMdUsd)
GoodDetailed == Crypto(DetailedTop, NoData, DetailedMd, DetailedMdUsd)

PriceValues == {Missing, Null, Num(100), DecStr(250), NanStr, Text("n/a")}
OptValues == {Missing, Null, NanStr, Text("n/a")}

\* One crypto element per way a single key can be off, in each shape.
CryptoRecs ==
    {GoodMarkets, GoodSimple, GoodDetailed}
    \cup {Crypto([MarketsTop EXCEPT ![key] = v], NoData, NoMd, NoMdUsd) :
            key \in {"id", "symbol", "name"}, v \in {Missing, Null}}
    \cup {Crypto([MarketsTop EXCEPT !["current_price"] = v], NoData, NoMd, NoMdUsd) :
            v \in PriceValues}
    \cup {Crypto([MarketsTop EXCEPT ![key] = v], NoData, NoMd, NoMdUsd) :
            key \in {"market_cap", "total_volume", "price_change_percentage_24h"},
            v \in OptValues}
    \cup {Crypto([SimpleTop EXCEPT ![key] = v], SimpleData, NoMd, NoMdUsd) :
            key \in {"id", "data"}, v \in {Null, Text("n/a")}}
    \cup {Crypto(SimpleTop, [SimpleData EXCEPT !["usd"] = v], NoMd, NoMdUsd) :
            v \in PriceValues}
    \cup {Crypto(SimpleTop, [SimpleData EXCEPT !["usd_market_cap"] = v], NoMd, NoMdUsd) :
            v \in {Missing, Null}}
    \cup {Crypto([DetailedTop EXCEPT ![key] = v], NoData, DetailedMd, DetailedMdUsd) :
            key \in {"symbol", "market_data"}, v \in {Null, Text("n/a")}}
    \cup {Crypto([DetailedTop EXCEPT !["symbol"] = Missing], NoData, DetailedMd,
                 DetailedMdUsd)}
    \cup {Crypto(DetailedTop, NoData, [DetailedMd EXCEPT ![key] = v], DetailedMdUsd) :
            key \in {"current_price", "market_cap", "price_change_percentage_24h"},
            v \in {Missing, Null}}
    \cup {Crypto(DetailedTop, NoData, DetailedMd,
                 [DetailedMdUsd EXCEPT !["current_price"] = v]) : v \in PriceValues}
    \cup {[GoodMarkets EXCEPT !.self = v] : v \in {Null, Text("n/a"), List}}

CryptoInputs == {PyNone} \cup {PyList(b) : b \in Batches(CryptoRecs)}

Forex(base, date, rates, items) ==
    [k |-> "dict", base |-> base, date |-> date, rates |-> rates, items |-> items]
ForexNone ==
    [k |-> "null", base |-> Missing, date |-> Missing, rates |-> Missing, items |-> <<>>]
EmptyDict ==
    [k |-> "dict", base |-> Missing, date |-> Missing, rates |-> Missing, items |-> <<>>]

Currencies == {"EUR", "GBP", "JPY"}
RateValues == {Null, Num(92), Num(0), Num(-5), DecStr(79), NanStr, Text("n/a"), List,
               PyTrue}

\* rates.items(): sequences of (currency, rate) with no currency twice.
RateItems ==
    {r \in Batches([cur : {Text(c) : c \in Currencies}, rate : RateValues]) :
        \A i, j \in 1..Len(r) : i # j => r[i].cur # r[j].cur}

ForexInputs ==
    {ForexNone, EmptyDict}
    \cup {Forex(Text("USD"), d, Dict, r) : d \in {Text("2024-01-02"), Missing}, r \in RateItems}
    \cup {Forex(b, Text("2024-01-02"), rk, <<>>) :
            b \in {Text("USD"), Null, Missing}, rk \in {Dict, Null, Missing}}
    \cup {Forex(Null, Text("2024-01-02"), Dict, <<[cur |-> Text("EUR"), rate |-> Num(92)]>>)}

\* ------------------------------------------------------------ extractors
\* A provider's answer to one request is [status, body, ...]: whether the HTTP
\* call succeeded, the kind of the JSON body, and what the body holds.

\* BaseExtractor.get: the parsed JSON body, or None on any HTTP or transport
\* failure; it never raises.
Get(resp) == IF resp.status = "ok" THEN resp ELSE [resp EXCEPT !.body = Null]

\* bool(v) of a JSON value; `empty` says a container or string has no items.
Truthy(v, empty) ==
    CASE v.k \in {"null", "missing"} -> FALSE
      [] v.k \in {"num", "bool"} -> v.n # 0
      [] OTHER -> ~empty

QuoteEmpty(quote) == \A key \in QuoteKeys : quote[key].k = "missing"

\* StocksExtractor.extract_stock_price(symbol): [exc, found, rec]
ExtractStockPrice(symbol, resp) ==
    LET data == Get(resp)
        none == [exc |-> "none", found |-> FALSE, rec |-> Stock(Text(symbol), data.quote)]
    IN  CASE ~Truthy(data.body, data.bodyEmpty) -> none
          [] data.body.k \in {"num", "bool"} ->          \* 'Global Quote' in 5
                [none EXCEPT !.exc = "TypeError"]
          [] data.body.k # "dict" -> none                \* not an item of the list
          [] data.gq.k = "missing" -> none               \* no 'Global Quote' key
          [] ~Truthy(data.gq, QuoteEmpty(data.quote)) -> none
          [] OTHER ->
                [exc |-> "none", found |-> TRUE,
                 rec |-> [symbol |-> Text(symbol), data |-> data.gq, quote |-> data.quote]]

RECURSIVE ExtractMultipleStocks(_, _)
\* StocksExtractor.extract_multiple_stocks(symbols): [exc, items]; resps[i] is the
\* provider's answer for symbols[i].
ExtractMultipleStocks(symbols, resps) ==
    IF symbols = <<>> THEN [exc |-> "none", items |-> <<>>]
    ELSE LET one == ExtractStockPrice(Head(symbols), Head(resps)) IN
         IF one.exc # "none" THEN [exc |-> one.exc, items |-> <<>>]
         ELSE LET rest == ExtractMultipleStocks(Tail(symbols), Tail(resps)) IN
              IF rest.exc # "none" THEN rest
              ELSE [exc |-> "none",
                    items |-> IF one.found THEN <<one.rec>> \o rest.items ELSE rest.items]

\* An extractor that returns any truthy body, array or not.
ExtractCryptoAnyBody(resp) ==
    LET data == Get(resp) IN
    IF Truthy(data.body, data.items = <<>>)
    THEN [k |-> data.body.k, items |-> data.items]
    ELSE PyNone

\* CryptoExtractor.extract_crypto_details(coin_ids): the array, or None
ExtractCryptoDetails(resp) ==
    LET data == Get(resp) IN
    IF Truthy(data.body, data.items = <<>>) /\ data.body.k = "list"
    THEN PyList(data.items)
    ELSE PyNone

\* A filter that answers every requested currency, None for one not provided.
RECURSIVE FilterRatesKeepsAbsent(_, _)
FilterRatesKeepsAbsent(targets, items) ==
    IF targets = <<>> THEN <<>>
    ELSE LET here == SelectSeq(items, LAMBDA it : it.cur = Text(Head(targets)))
             others == SelectSeq(Tail(targets), LAMBDA t : t # Head(targets))
         IN  (IF here = <<>> THEN <<[cur |-> Text(Head(targets)), rate |-> Null]>>
              ELSE <<here[Len(here)]>>)
             \o FilterRatesKeepsAbsent(others, items)

RECURSIVE FilterRates(_, _)
\* The dict comprehension of lines 38-42: the requested currencies the
\* provider has, in the order requested; a currency requested twice is one key.
FilterRates(targets, items) ==
    IF targets = <<>> THEN <<>>
    ELSE LET here == SelectSeq(items, LAMBDA it : it.cur = Text(Head(targets)))
             others == SelectSeq(Tail(targets), LAMBDA t : t # Head(targets))
         IN  (IF here = <<>> THEN <<>> ELSE <<here[Len(here)]>>)
             \o FilterRates(others, items)

\* ForexExtractor.extract_exchange_rates(base_currency, target_currencies): [exc, val]
ExtractExchangeRates(base, targets, resp) ==
    LET data == Get(resp)
        none == [exc |-> "none", val |-> ForexNone]
    IN  CASE ~Truthy(data.body, data.bodyEmpty) -> none
          [] data.body.k \in {"num", "bool"} ->          \* 'rates' in 5
                [none EXCEPT !.exc = "TypeError"]
          [] data.body.k # "dict" -> none
          [] data.rates.k = "missing" -> none
          [] targets # <<>> /\ data.rates.k \in {"null", "num", "bool"} ->
                [none EXCEPT !.exc = "TypeError"]       \* currency in None
          [] OTHER ->
                [exc |-> "none",
                 val |-> Forex(Text(base), DictGet(data, "date", Null), Dict,
                               IF data.rates.k = "dict"
                               THEN FilterRates(targets, data.items) ELSE <<>>)]

\* ---------------------------------------------------------- DataLoader
\* A database is [exc, tables, rows]: the error of the last statement, the
\* tables that exist and the rows of each.

\* CREATE TABLE without a look at what exists: an existing table is an error.
CreateOneUnchecked(db, name) ==
    IF db.exc # "none" THEN db
    ELSE IF name \in db.tables THEN [db EXCEPT !.exc = "OperationalError"]
    ELSE [db EXCEPT !.tables = @ \cup {name}]

\* create_all on one table of the metadata: CREATE TABLE unless it exists.
CreateOne(db, name) ==
    IF db.exc # "none" THEN db
    ELSE IF name \in db.tables THEN db
    ELSE [db EXCEPT !.tables = @ \cup {name}, !.rows[name] = <<>>]

\* DatabaseManager.create_tables: Base.metadata.create_all(self.engine)
CreateAll(existing, rows) ==
    CreateOne(CreateOne(CreateOne([exc |-> "none", tables |-> existing, rows |-> rows],
                                  "stocks"), "crypto"), "forex")

\* The tables there are after create_tables.
CreateTables(existing) == CreateAll(existing, [l \in Lanes |-> <<>>]).tables

\* A loader whose three methods all name the stocks table.
TableOfAlwaysStocks(name) == "stocks"

\* The table load_stocks, load_crypto and load_forex hand to df.to_sql.
TableOf(name) ==
    CASE name = "stocks" -> "stocks"
      [] name = "crypto" -> "crypto"
      [] name = "forex" -> "forex"

\* A loader that writes with if_exists='replace'.
LoaderLoadReplaces(name, rows, df, writeOk) ==
    IF df = <<>> THEN [exc |-> "none", count |-> 0, rows |-> rows]
    ELSE IF writeOk THEN [exc |-> "none", count |-> Len(df), rows |-> df]
    ELSE [exc |-> "OperationalError", count |-> 0, rows |-> rows]

\* A loader without the `if df.empty` test: it hands every frame to to_sql.
LoaderLoadWritesEmpty(name, rows, df, writeOk) ==
    IF writeOk THEN [exc |-> "none", count |-> Len(df), rows |-> rows \o df]
    ELSE [exc |-> "OperationalError", count |-> 0, rows |-> rows]

\* A loader whose except clause logs the failure and returns 0.
LoaderLoadSwallows(name, rows, df, writeOk) ==
    IF df = <<>> THEN [exc |-> "none", count |-> 0, rows |-> rows]
    ELSE IF writeOk THEN [exc |-> "none", count |-> Len(df), rows |-> rows \o df]
    ELSE [exc |-> "none", count |-> 0, rows |-> rows]

\* DataLoader.load_stocks / load_crypto / load_forex on table `name`:
\* [exc, count, rows], rows being the table afterwards. `writeOk` is whether
\* the database accepts the write of df.to_sql.
LoaderLoad(name, rows, df, writeOk) ==
    IF df = <<>> THEN [exc |-> "none", count |-> 0, rows |-> rows]
    ELSE IF writeOk THEN [exc |-> "none", count |-> Len(df), rows |-> rows \o df]
    ELSE [exc |-> "OperationalError", count |-> 0, rows |-> rows]

\* ------------------------------------------------------- the DAG's tasks
\* config['data_sources']
StockSymbols == <<"AAPL", "MSFT">>
BaseCurrency == "USD"
TargetCurrencies == <<"EUR", "GBP">>

XKeys == {"stocks_raw_data", "crypto_raw_data", "forex_raw_data",
          "stocks_transformed_data", "crypto_transformed_data",
          "forex_transformed_data"}

\* xcom_pull of a key nothing was pushed under gives None.
NoXcom ==
    [key \in XKeys |->
        CASE key = "forex_raw_data" -> ForexNone
          [] key \in {"stocks_raw_data", "crypto_raw_data"} -> PyNone
          [] OTHER -> <<>>]

\* A task without its "if not raw_data: return".
FalsyListNever(data) == FALSE

\* not raw_data, for a list or None
FalsyList(data) == data.k = "null" \/ data.items = <<>>
\* not raw_data, for the forex dict or None
FalsyForex(data) ==
    \/ data.k = "null"
    \/ data.base.k = "missing" /\ data.date.k = "missing" /\ data.rates.k = "missing"

\* Dependencies wired extract >> load, with transform left out of the chain.
NextStageSkipsTransform(stage) ==
    CASE stage = "Extracting" -> "Loading"
      [] stage = "Transforming" -> "Loading"
      [] stage = "Loading" -> "Done"

\* The task of lane l returned: the scheduler runs the lane's next task, if any.
NextStage(stage) ==
    CASE stage = "Extracting" -> "Transforming"
      [] stage = "Transforming" -> "Loading"
      [] stage = "Loading" -> "Done"

TaskName(stage) ==
    CASE stage = "Extracting" -> "extract"
      [] stage = "Transforming" -> "transform"
      [] stage = "Loading" -> "load"

Returns(l, called) ==
    /\ state' = [state EXCEPT ![l] = NextStage(state[l])]
    /\ ran' = [ran EXCEPT ![l] = Append(@, TaskName(state[l]))]
    /\ invoked' = [invoked EXCEPT ![l] = @ \cup called]
    /\ exc' = exc

\* The task of lane l raised: the task fails and the lane's later tasks never run.
Raises(l, called, e) ==
    /\ state' = [state EXCEPT ![l] = "Failed"]
    /\ ran' = [ran EXCEPT ![l] = Append(@, TaskName(state[l]))]
    /\ invoked' = [invoked EXCEPT ![l] = @ \cup called]
    /\ exc' = [exc EXCEPT ![l] = e]

\* The scheduler starts a lane: its first task has nothing upstream.
schedule(l) ==
    /\ state[l] = "Idle"
    /\ state' = [state EXCEPT ![l] = "Extracting"]
    /\ UNCHANGED <<xcom, tables, store, store0, wrote, ran, invoked, exc>>
    /\ UNCHANGED <<tkind, tin, tout, clock, dresps, dcalled, dexit, xvars, lvars>>

\* What the stocks provider can answer to one symbol's request.
StockResp(status, body, bodyEmpty, gq, quote) ==
    [status |-> status, body |-> body, bodyEmpty |-> bodyEmpty, gq |-> gq, quote |-> quote]
NoQuote == [key \in QuoteKeys |-> Missing]
StockResponses ==
    { StockResp("error", Dict, FALSE, Dict, GoodQuote),                \* HTTP failure
      StockResp("ok", Dict, FALSE, Missing, NoQuote),                  \* {"Note": ...}
      StockResp("ok", Dict, FALSE, Dict, NoQuote),                     \* {"Global Quote": {}}
      StockResp("ok", Dict, FALSE, Dict, GoodQuote),
      StockResp("ok", Dict, FALSE, Dict, [GoodQuote EXCEPT !["05. price"] = Text("n/a")]),
      StockResp("ok", Dict, FALSE, Dict, [GoodQuote EXCEPT !["05. price"] = Null]) }

extract_stocks ==
    /\ state["stocks"] = "Extracting"
    /\ \E resps \in [1..Len(StockSymbols) -> StockResponses] :
          LET data == ExtractMultipleStocks(StockSymbols, resps) IN
          IF data.exc # "none"
          THEN /\ Raises("stocks", {"extractor"}, data.exc)
               /\ xcom' = xcom
          ELSE /\ Returns("stocks", {"extractor"})
               /\ xcom' = [xcom EXCEPT !["stocks_raw_data"] = PyList(data.items)]
    /\ UNCHANGED <<tables, store, store0, wrote, tkind, tin, tout, clock, dresps, dcalled, dexit, xvars, lvars>>

CryptoResp(status, body, items) == [status |-> status, body |-> body, items |-> items]
CryptoResponses ==
    { CryptoResp("error", List, <<GoodMarkets>>),
      CryptoResp("ok", Dict, <<>>),                                    \* {"error": ...}
      CryptoResp("ok", List, <<>>),
      CryptoResp("ok", List, <<GoodMarkets>>),
      CryptoResp("ok", List,
                 <<GoodMarkets,
                   Crypto([MarketsTop EXCEPT !["current_price"] = Text("n/a")],
                          NoData, NoMd, NoMdUsd)>>),
      CryptoResp("ok", List,
                 <<Crypto([MarketsTop EXCEPT !["current_price"] = Null],
                          NoData, NoMd, NoMdUsd)>>),
      CryptoResp("ok", List,
                 <<Crypto([MarketsTop EXCEPT !["symbol"] = Null], NoData, NoMd, NoMdUsd)>>) }

extract_crypto ==
    /\ state["crypto"] = "Extracting"
    /\ \E resp \in CryptoResponses :
          /\ Returns("crypto", {"extractor"})
          /\ xcom' = [xcom EXCEPT !["crypto_raw_data"] = ExtractCryptoDetails(resp)]
    /\ UNCHANGED <<tables, store, store0, wrote, tkind, tin, tout, clock, dresps, dcalled, dexit, xvars, lvars>>

ForexResp(status, body, bodyEmpty, date, rates, items) ==
    [status |-> status, body |-> body, bodyEmpty |-> bodyEmpty, date |-> date,
     rates |-> rates, items |-> items]
Rate(cur, rate) == [cur |-> Text(cur), rate |-> rate]
ForexResponses ==
    { ForexResp("error", Dict, FALSE, Missing, Missing, <<>>),
      ForexResp("ok", Dict, FALSE, Missing, Missing, <<>>),            \* {"error": ...}
      ForexResp("ok", Dict, FALSE, Text("2024-01-02"), Dict, <<Rate("JPY", Num(14980))>>),
      ForexResp("ok", Dict, FALSE, Text("2024-01-02"), Dict,
                <<Rate("GBP", Num(79)), Rate("EUR", Num(92)), Rate("JPY", Num(14980))>>),
      ForexResp("ok", Dict, FALSE, Text("2024-01-02"), Dict,
                <<Rate("EUR", Null), Rate("GBP", Text("n/a"))>>),
      ForexResp("ok", Dict, FALSE, Missing, Dict, <<Rate("EUR", Num(0))>>),
      ForexResp("ok", Dict, FALSE, Text("2024-01-02"), Dict,
                <<Rate("EUR", Num(-5)), Rate("GBP", PyTrue)>>),
      ForexResp("ok", Dict, FALSE, Text("2024-01-02"), Null, <<>>) }   \* "rates": null

extract_forex ==
    /\ state["forex"] = "Extracting"
    /\ \E resp \in ForexResponses :
          LET data == ExtractExchangeRates(BaseCurrency, TargetCurrencies, resp) IN
          IF data.exc # "none"
          THEN /\ Raises("forex", {"extractor"}, data.exc)
               /\ xcom' = xcom
          ELSE /\ Returns("forex", {"extractor"})
               /\ xcom' = [xcom EXCEPT !["forex_raw_data"] = data.val]
    /\ UNCHANGED <<tables, store, store0, wrote, tkind, tin, tout, clock, dresps, dcalled, dexit, xvars, lvars>>

\* The body shared by transform_stocks and transform_crypto once the raw data is
\* pulled: `df` is what the lane's transformer returns for it.
TransformTask(l, falsy, df, outKey) ==
    IF falsy
    THEN /\ Returns(l, {})                          \* "No ... data to transform"
         /\ xcom' = xcom
    ELSE IF df.exc # "none"
    THEN /\ Raises(l, {"transformer"}, df.exc)
         /\ xcom' = xcom
    ELSE /\ Returns(l, {"transformer"})
         /\ xcom' = [xcom EXCEPT ![outKey] = df.rows]    \* df.to_dict('records')

transform_stocks ==
    /\ state["stocks"] = "Transforming"
    /\ LET raw_data == xcom["stocks_raw_data"] IN
       TransformTask("stocks", FalsyList(raw_data), StocksTransform(raw_data, clock),
                     "stocks_transformed_data")
    /\ UNCHANGED <<tables, store, store0, wrote, tkind, tin, tout, clock, dresps, dcalled, dexit, xvars, lvars>>

transform_crypto ==
    /\ state["crypto"] = "Transforming"
    /\ LET raw_data == xcom["crypto_raw_data"] IN
       TransformTask("crypto", FalsyList(raw_data), CryptoTransform(raw_data, clock),
                     "crypto_transformed_data")
    /\ UNCHANGED <<tables, store, store0, wrote, tkind, tin, tout, clock, dresps, dcalled, dexit, xvars, lvars>>

transform_forex ==
    /\ state["forex"] = "Transforming"
    /\ LET raw_data == xcom["forex_raw_data"] IN
       TransformTask("forex", FalsyForex(raw_data), ForexTransform(raw_data, clock),
                     "forex_transformed_data")
    /\ UNCHANGED <<tables, store, store0, wrote, tkind, tin, tout, clock, dresps, dcalled, dexit, xvars, lvars>>

\* The body shared by load_stocks, load_crypto and load_forex: `data` is the
\* pulled list of records; connectOk and writeOk are what the database does.
LoadTask(l, data, connectOk, writeOk) ==
    IF data = <<>>
    THEN /\ Returns(l, {})                          \* "No ... data to load"
         /\ UNCHANGED <<tables, store, wrote>>
    ELSE IF ~connectOk                              \* DataLoader(db_path) raised
    THEN /\ Raises(l, {}, "OperationalError")
         /\ UNCHANGED <<tables, store, wrote>>
    ELSE LET loaded == LoaderLoad(l, store[TableOf(l)], data, writeOk) IN
         /\ tables' = CreateTables(tables)
         /\ store' = [store EXCEPT ![TableOf(l)] = loaded.rows]
         /\ wrote' = [wrote EXCEPT ![l] = IF writeOk THEN "ok" ELSE "failed"]
         /\ IF loaded.exc # "none"
            THEN Raises(l, {"loader"}, loaded.exc)
            ELSE Returns(l, {"loader"})

load_stocks ==
    /\ state["stocks"] = "Loading"
    /\ \E connectOk, writeOk \in BOOLEAN :
          LoadTask("stocks", xcom["stocks_transformed_data"], connectOk, writeOk)
    /\ UNCHANGED <<xcom, store0, tkind, tin, tout, clock, dresps, dcalled, dexit, xvars, lvars>>

load_crypto ==
    /\ state["crypto"] = "Loading"
    /\ \E connectOk, writeOk \in BOOLEAN :
          LoadTask("crypto", xcom["crypto_transformed_data"], connectOk, writeOk)
    /\ UNCHANGED <<xcom, store0, tkind, tin, tout, clock, dresps, dcalled, dexit, xvars, lvars>>

load_forex ==
    /\ state["forex"] = "Loading"
    /\ \E connectOk, writeOk \in BOOLEAN :
          LoadTask("forex", xcom["forex_transformed_data"], connectOk, writeOk)
    /\ UNCHANGED <<xcom, store0, tkind, tin, tout, clock, dresps, dcalled, dexit, xvars, lvars>>

\* ------------------------------------------------ specification: the DAG run
\* The demo script is not running.
DemoIdle ==
    /\ dresps = <<>>
    /\ dcalled = <<>>
    /\ dexit = "running"

\* No extractor is under test.
XPending == [exc |-> "pending", val |-> [k |-> "null", items |-> <<>>]]
NoRequest == [base |-> "", names |-> <<>>]
ExtractIdle ==
    /\ xkind = "none"
    /\ xreq = NoRequest
    /\ xresps = <<>>
    /\ xpc = "idle"
    /\ xi = 0
    /\ xresults = <<>>
    /\ xlog = <<>>
    /\ xout = XPending

\* No DataLoader has been built.
NoCall == [op |-> "none", name |-> "none", df |-> <<>>, ok |-> TRUE,
           ret |-> [exc |-> "none", count |-> 0]]
LoaderIdle == lcall = NoCall /\ ln = 0 /\ loader = FALSE

\* A row an earlier run left in a table.
OldRow(l) == [lane |-> l, old |-> TRUE]

Init ==
    /\ state = [l \in Lanes |-> "Idle"]
    /\ xcom = NoXcom
    /\ \/ tables = {} /\ store = [l \in Lanes |-> <<>>]
       \/ /\ tables = Lanes
          /\ \E old \in SUBSET Lanes :
                store = [l \in Lanes |-> IF l \in old THEN <<OldRow(l)>> ELSE <<>>]
    /\ store0 = store
    /\ wrote = [l \in Lanes |-> "none"]
    /\ ran = [l \in Lanes |-> <<>>]
    /\ invoked = [l \in Lanes |-> {}]
    /\ exc = [l \in Lanes |-> "none"]
    /\ tkind = "none"
    /\ tin = PyNone
    /\ tout = Pending
    /\ clock = 0
    /\ DemoIdle
    /\ ExtractIdle
    /\ LoaderIdle

Next ==
    \/ \E l \in Lanes : schedule(l)
    \/ extract_stocks \/ extract_crypto \/ extract_forex
    \/ transform_stocks \/ transform_crypto \/ transform_forex
    \/ load_stocks \/ load_crypto \/ load_forex

Spec == Init /\ [][Next]_vars

\* ------------------------------------------------ specification: transformers
TInit ==
    /\ \/ tkind = "stocks" /\ tin \in StockInputs
       \/ tkind = "crypto" /\ tin \in CryptoInputs
       \/ tkind = "forex" /\ tin \in ForexInputs
    /\ tout = Pending
    /\ clock = 0
    /\ state = [l \in Lanes |-> "Idle"]
    /\ xcom = NoXcom
    /\ tables = {}
    /\ store = [l \in Lanes |-> <<>>]
    /\ store0 = store
    /\ wrote = [l \in Lanes |-> "none"]
    /\ ran = [l \in Lanes |-> <<>>]
    /\ invoked = [l \in Lanes |-> {}]
    /\ exc = [l \in Lanes |-> "none"]
    /\ DemoIdle
    /\ ExtractIdle
    /\ LoaderIdle

Tick ==
    /\ clock < MaxClock
    /\ clock' = clock + 1
    /\ UNCHANGED <<tkind, tin, tout>>
    /\ UNCHANGED pvars
    /\ UNCHANGED dvars
    /\ UNCHANGED <<xvars, lvars>>

TransformStocks ==
    /\ tkind = "stocks"
    /\ tout = Pending
    /\ tout' = StocksTransform(tin, clock)
    /\ UNCHANGED <<tkind, tin, clock>>
    /\ UNCHANGED pvars
    /\ UNCHANGED dvars
    /\ UNCHANGED <<xvars, lvars>>

TransformCrypto ==
    /\ tkind = "crypto"
    /\ tout = Pending
    /\ tout' = CryptoTransform(tin, clock)
    /\ UNCHANGED <<tkind, tin, clock>>
    /\ UNCHANGED pvars
    /\ UNCHANGED dvars
    /\ UNCHANGED <<xvars, lvars>>

TransformForex ==
    /\ tkind = "forex"
    /\ tout = Pending
    /\ tout' = ForexTransform(tin, clock)
    /\ UNCHANGED <<tkind, tin, clock>>
    /\ UNCHANGED pvars
    /\ UNCHANGED dvars
    /\ UNCHANGED <<xvars, lvars>>

TNext == Tick \/ TransformStocks \/ TransformCrypto \/ TransformForex

SpecT == TInit /\ [][TNext]_vars

\* ------------------------------------------------ specification: the demo run
\* demo_pipeline.py, line 61
DemoSymbols == <<"AAPL", "MSFT", "GOOGL">>

PyDict(items) == [k |-> "dict", items |-> items]

\* run_stocks_pipeline: the exception that leaves it, "none" if it returns.
\* transformer.transform(stock) gets one {'symbol', 'data'} dict, not a list.
RunStocksPipeline(resps) ==
    LET raw_data == ExtractMultipleStocks(DemoSymbols, resps) IN
    IF raw_data.exc # "none" THEN raw_data.exc
    ELSE IF raw_data.items = <<>> THEN "none"          \* "No stock data extracted"
    ELSE StocksTransform(PyDict(<<Head(raw_data.items)>>), 0).exc

\* run_crypto_pipeline: CryptoExtractor has no extract_multiple_cryptos.
RunCryptoPipeline == "AttributeError"

\* run_forex_pipeline: ForexExtractor.__init__ takes no api_key.
RunForexPipeline == "TypeError"

\* main: the try block of lines 219-236, the calls in order until one raises.
main ==
    /\ dexit = "running"
    /\ dresps # <<>>
    /\ LET names == <<"stocks", "crypto", "forex">>
           outcomes == <<RunStocksPipeline(dresps), RunCryptoPipeline, RunForexPipeline>>
           raised == {i \in 1..3 : outcomes[i] # "none"}
           first == IF raised = {} THEN 0
                    ELSE CHOOSE i \in raised : \A j \in raised : i <= j
       IN  /\ dcalled' = IF first = 0 THEN names ELSE SubSeq(names, 1, first)
           /\ dexit' = IF first = 0 THEN "completed" ELSE "exit1"
    /\ UNCHANGED <<dresps, clock>>
    /\ UNCHANGED pvars
    /\ UNCHANGED tvars
    /\ UNCHANGED <<xvars, lvars>>

DInit ==
    /\ dresps \in [1..Len(DemoSymbols) -> StockResponses]
    /\ dcalled = <<>>
    /\ dexit = "running"
    /\ state = [l \in Lanes |-> "Idle"]
    /\ xcom = NoXcom
    /\ tables = {}
    /\ store = [l \in Lanes |-> <<>>]
    /\ store0 = store
    /\ wrote = [l \in Lanes |-> "none"]
    /\ ran = [l \in Lanes |-> <<>>]
    /\ invoked = [l \in Lanes |-> {}]
    /\ exc = [l \in Lanes |-> "none"]
    /\ tkind = "none"
    /\ tin = PyNone
    /\ tout = Pending
    /\ clock = 0
    /\ ExtractIdle
    /\ LoaderIdle

DNext == main

SpecDemo == DInit /\ [][DNext]_vars

\* ------------------------------------------------ specification: extractors
MaxSymbols == 2      \* symbols, coins or target currencies in one request

Requests(S) == UNION {[1..n -> S] : n \in 0..MaxSymbols}

\* Every shape of answer to a quote request: the DAG run's, an empty object,
\* an array, a null quote and a bare number.
XStockResponses ==
    StockResponses
    \cup { StockResp("ok", Dict, TRUE, Missing, NoQuote),              \* {}
           StockResp("ok", List, FALSE, Missing, NoQuote),             \* [...]
           StockResp("ok", Dict, FALSE, Null, NoQuote),                \* "Global Quote": null
           StockResp("ok", Num(500), FALSE, Missing, NoQuote) }        \* 5

XCryptoResponses ==
    CryptoResponses
    \cup { CryptoResp("ok", Null, <<>>),                               \* null
           CryptoResp("ok", Num(500), <<>>),                           \* 5
           CryptoResp("ok", Text("limit reached"), <<>>),
           CryptoResp("ok", List, <<GoodMarkets, GoodSimple>>) }

XForexResponses ==
    ForexResponses
    \cup { ForexResp("ok", Dict, TRUE, Missing, Missing, <<>>),        \* {}
           ForexResp("ok", List, FALSE, Missing, Missing, <<>>),       \* [...]
           ForexResp("ok", Dict, FALSE, Text("2024-01-02"), Dict, <<>>),
           ForexResp("ok", Dict, FALSE, Text("2024-01-02"), Dict,
                     <<Rate("EUR", Num(92))>>) }

Request(base, names) == [base |-> base, names |-> names]

XInit ==
    /\ \/ /\ xkind = "stocks"
          /\ \E symbols \in Requests({"AAPL", "MSFT"}) :
                /\ xreq = Request("", symbols)
                /\ xresps \in [1..Len(symbols) -> XStockResponses]
       \/ /\ xkind = "crypto"
          /\ xreq \in {Request("", ids) : ids \in Requests({"bitcoin", "ethereum"})}
          /\ xresps \in [1..1 -> XCryptoResponses]
       \/ /\ xkind = "forex"
          /\ xreq \in {Request("USD", targets) : targets \in Requests({"EUR", "GBP", "XXX"})}
          /\ xresps \in [1..1 -> XForexResponses]
    /\ xpc = "call"
    /\ xi = 0
    /\ xresults = <<>>
    /\ xlog = <<>>
    /\ xout = XPending
    /\ state = [l \in Lanes |-> "Idle"]
    /\ xcom = NoXcom
    /\ tables = {}
    /\ store = [l \in Lanes |-> <<>>]
    /\ store0 = store
    /\ wrote = [l \in Lanes |-> "none"]
    /\ ran = [l \in Lanes |-> <<>>]
    /\ invoked = [l \in Lanes |-> {}]
    /\ exc = [l \in Lanes |-> "none"]
    /\ tkind = "none"
    /\ tin = PyNone
    /\ tout = Pending
    /\ clock = 0
    /\ DemoIdle
    /\ LoaderIdle

XRest == <<pvars, tvars, clock, dvars, lvars>>

HttpGet(what) == [ev |-> "get", arg |-> what]
Sleep == [ev |-> "sleep", arg |-> "delay"]

\* A loop that never pauses.
PauseNever(i, symbols) == FALSE
\* if i < len(symbols) - 1
PauseDue(i, symbols) == i < Len(symbols) - 1

\* extract_multiple_stocks, lines 68-71: one turn of the loop up to the pause.
StockCall ==
    /\ xkind = "stocks" /\ xpc = "call" /\ xi < Len(xreq.names)
    /\ LET symbol == xreq.names[xi + 1]
           data == ExtractStockPrice(symbol, xresps[xi + 1])
       IN  /\ xlog' = Append(xlog, HttpGet(symbol))
           /\ IF data.exc # "none"
              THEN /\ xout' = [exc |-> data.exc, val |-> PyNone]
                   /\ xpc' = "done"
                   /\ UNCHANGED <<xi, xresults>>
              ELSE /\ xresults' = IF data.found THEN Append(xresults, data.rec)
                                  ELSE xresults
                   /\ IF PauseDue(xi, xreq.names)
                      THEN xpc' = "pause" /\ xi' = xi
                      ELSE xpc' = "call" /\ xi' = xi + 1
                   /\ xout' = xout
    /\ UNCHANGED <<xkind, xreq, xresps>>
    /\ UNCHANGED XRest

\* extract_multiple_stocks, lines 74-76: time.sleep(delay)
StockPause ==
    /\ xkind = "stocks" /\ xpc = "pause"
    /\ xlog' = Append(xlog, Sleep)
    /\ xi' = xi + 1
    /\ xpc' = "call"
    /\ UNCHANGED <<xkind, xreq, xresps, xresults, xout>>
    /\ UNCHANGED XRest

\* extract_multiple_stocks, lines 78-79: return results
StockReturn ==
    /\ xkind = "stocks" /\ xpc = "call" /\ xi = Len(xreq.names)
    /\ xout' = [exc |-> "none", val |-> PyList(xresults)]
    /\ xpc' = "done"
    /\ UNCHANGED <<xkind, xreq, xresps, xi, xresults, xlog>>
    /\ UNCHANGED XRest

\* CryptoExtractor.extract_crypto_details(coin_ids)
ExtractCrypto ==
    /\ xkind = "crypto" /\ xpc = "call"
    /\ xlog' = Append(xlog, HttpGet("coins/markets"))
    /\ xout' = [exc |-> "none", val |-> ExtractCryptoDetails(xresps[1])]
    /\ xpc' = "done"
    /\ UNCHANGED <<xkind, xreq, xresps, xi, xresults>>
    /\ UNCHANGED XRest

\* ForexExtractor.extract_exchange_rates(base_currency, target_currencies)
ExtractForex ==
    /\ xkind = "forex" /\ xpc = "call"
    /\ xlog' = Append(xlog, HttpGet(xreq.base))
    /\ xout' = ExtractExchangeRates(xreq.base, xreq.names, xresps[1])
    /\ xpc' = "done"
    /\ UNCHANGED <<xkind, xreq, xresps, xi, xresults>>
    /\ UNCHANGED XRest

XNext == StockCall \/ StockPause \/ StockReturn \/ ExtractCrypto \/ ExtractForex

SpecX == XInit /\ [][XNext]_vars

\* ------------------------------------- specification: a run that must end
\* A DAG run in which the stocks extraction goes request by request, and every
\* task that can run does run in the end. The lanes share no state, so the
\* executor is taken to run them one lane after another, in any order.
Terminal == {"Done", "Failed"}

LiveInit ==
    /\ state = [l \in Lanes |-> "Idle"]
    /\ xcom = NoXcom
    /\ tables = {}
    /\ store = [l \in Lanes |-> <<>>]
    /\ store0 = store
    /\ wrote = [l \in Lanes |-> "none"]
    /\ ran = [l \in Lanes |-> <<>>]
    /\ invoked = [l \in Lanes |-> {}]
    /\ exc = [l \in Lanes |-> "none"]
    /\ tkind = "none"
    /\ tin = PyNone
    /\ tout = Pending
    /\ clock = 0
    /\ DemoIdle
    /\ LoaderIdle
    /\ xkind = "stocks"
    /\ \E n \in 0..Len(StockSymbols) :        \* the configured symbols
          xreq = Request("", SubSeq(StockSymbols, 1, n))
    /\ xresps = <<>>
    /\ xpc = "idle"
    /\ xi = 0
    /\ xresults = <<>>
    /\ xlog = <<>>
    /\ xout = XPending

\* The executor starts a lane when no other lane is under way.
start(l) ==
    /\ \A m \in Lanes \ {l} : state[m] \in Terminal \cup {"Idle"}
    /\ schedule(l)

\* extract_stocks, lines 58-64: the task calls extract_multiple_stocks; the
\* provider's answers are whatever they will be.
extract_stocks_call ==
    /\ state["stocks"] = "Extracting" /\ xpc = "idle"
    /\ xresps' \in [1..Len(xreq.names) -> XStockResponses]
    /\ xpc' = "call"
    /\ UNCHANGED <<xkind, xreq, xi, xresults, xlog, xout>>
    /\ UNCHANGED XRest

\* extract_stocks, lines 66-68: extract_multiple_stocks returned or raised.
extract_stocks_return ==
    /\ state["stocks"] = "Extracting" /\ xpc = "done"
    /\ IF xout.exc # "none"
       THEN /\ Raises("stocks", {"extractor"}, xout.exc)
            /\ xcom' = xcom
       ELSE /\ Returns("stocks", {"extractor"})
            /\ xcom' = [xcom EXCEPT !["stocks_raw_data"] = xout.val]
    /\ UNCHANGED <<tables, store, store0, wrote, tkind, tin, tout, clock, dresps, dcalled, dexit, xvars, lvars>>

LiveNext ==
    \/ \E l \in Lanes : start(l)
    \/ extract_stocks_call \/ StockCall \/ StockPause \/ StockReturn
    \/ extract_stocks_return
    \/ extract_crypto \/ extract_forex
    \/ transform_stocks \/ transform_crypto \/ transform_forex
    \/ load_stocks \/ load_crypto \/ load_forex

\* Every call returns: a task that can take a step takes it in the end.
SpecLive == LiveInit /\ [][LiveNext]_vars /\ WF_vars(LiveNext)

\* ------------------------------------------------ specification: the loader
MaxOps == 3        \* operations on the database in one behaviour
MaxFrame == 2      \* rows in one frame handed to a load

\* A frame of n rows for table `name`.
FrameOf(name, n) == [i \in 1..n |-> [lane |-> name, old |-> FALSE, v |-> i]]

LInit ==
    /\ \/ tables = {} /\ store = [l \in Lanes |-> <<>>]
       \/ /\ tables = Lanes
          /\ \E old \in SUBSET Lanes :
                store = [l \in Lanes |-> IF l \in old THEN <<OldRow(l)>> ELSE <<>>]
    /\ store0 = store
    /\ LoaderIdle
    /\ state = [l \in Lanes |-> "Idle"]
    /\ xcom = NoXcom
    /\ wrote = [l \in Lanes |-> "none"]
    /\ ran = [l \in Lanes |-> <<>>]
    /\ invoked = [l \in Lanes |-> {}]
    /\ exc = [l \in Lanes |-> "none"]
    /\ tkind = "none"
    /\ tin = PyNone
    /\ tout = Pending
    /\ clock = 0
    /\ DemoIdle
    /\ ExtractIdle

LRest == <<state, xcom, store0, wrote, ran, invoked, exc, tvars, clock, dvars, xvars>>

Call(op, name, df, ok, e, count) ==
    [op |-> op, name |-> name, df |-> df, ok |-> ok,
     ret |-> [exc |-> e, count |-> count]]

\* DatabaseManager.create_tables() on a connected manager
create_tables ==
    /\ ln < MaxOps
    /\ LET db == CreateAll(tables, store) IN
       /\ tables' = db.tables
       /\ store' = db.rows
       /\ lcall' = Call("create_tables", "none", <<>>, TRUE, db.exc, 0)
    /\ ln' = ln + 1
    /\ UNCHANGED loader
    /\ UNCHANGED LRest

\* DataLoader(db_path): connect, then create_tables
NewDataLoader ==
    /\ ln < MaxOps
    /\ LET db == CreateAll(tables, store) IN
       /\ tables' = db.tables
       /\ store' = db.rows
       /\ lcall' = Call("DataLoader", "none", <<>>, TRUE, db.exc, 0)
       /\ loader' = (db.exc = "none")
    /\ ln' = ln + 1
    /\ UNCHANGED LRest

\* loader.load_stocks(df), load_crypto(df) or load_forex(df)
Load ==
    /\ ln < MaxOps
    /\ loader
    /\ \E name \in Lanes, n \in 0..MaxFrame, writeOk \in BOOLEAN :
          LET df == FrameOf(name, n)
              loaded == LoaderLoad(name, store[TableOf(name)], df, writeOk)
          IN  /\ store' = [store EXCEPT ![TableOf(name)] = loaded.rows]
              /\ lcall' = Call("load", name, df, writeOk, loaded.exc, loaded.count)
    /\ ln' = ln + 1
    /\ UNCHANGED <<tables, loader>>
    /\ UNCHANGED LRest

LNext == create_tables \/ NewDataLoader \/ Load

SpecL == LInit /\ [][LNext]_vars

\* ====================================================================== claims
RawKey(l) ==
    CASE l = "stocks" -> "stocks_raw_data"
      [] l = "crypto" -> "crypto_raw_data"
      [] l = "forex" -> "forex_raw_data"
OutKey(l) ==
    CASE l = "stocks" -> "stocks_transformed_data"
      [] l = "crypto" -> "crypto_transformed_data"
      [] l = "forex" -> "forex_transformed_data"

\* The lane's extract task returned (it did not raise).
ExtractReturned(l) == Len(ran[l]) >= 1 /\ ~(state[l] = "Failed" /\ Len(ran[l]) = 1)
\* The lane's transform task returned.
TransformReturned(l) == Len(ran[l]) >= 2 /\ ~(state[l] = "Failed" /\ Len(ran[l]) = 2)
\* What the extractor handed over is None or has nothing in it.
RawEmpty(l) ==
    \/ xcom[RawKey(l)].k = "null"
    \/ l # "forex" /\ xcom[RawKey(l)].items = <<>>

C2_WriteFailureRaises ==
    \A l \in Lanes :
        /\ wrote[l] = "failed" => state[l] = "Failed" /\ exc[l] # "none"
        /\ xcom[OutKey(l)] # <<>> =>
              LoaderLoad(l, store[l], xcom[OutKey(l)], FALSE).exc # "none"

\* A lane's write was refused and the lane is Failed.
C2_Witness ==
    \E l \in Lanes : wrote[l] = "failed" /\ state[l] = "Failed" /\ ran[l][3] = "load"

\* C3: a lane fails only in its load task: whatever the provider answers, the
\* extract and transform tasks return without raising.
C3_OnlyPersistenceFails ==
    \A l \in Lanes : state[l] = "Failed" => ran[l][Len(ran[l])] = "load"

LaneTransform(l, raw, now) ==
    CASE l = "stocks" -> StocksTransform(raw, now)
      [] l = "crypto" -> CryptoTransform(raw, now)
      [] l = "forex" -> ForexTransform(raw, now)

\* In a DAG run a lane's table ends as the rows it had plus the rows of the
\* lane's own extraction, when its write went through.
LanesIndependentDag ==
    \A l \in Lanes :
        state[l] \in {"Done", "Failed"} =>
            store[l] = store0[l] \o
                (IF wrote[l] = "ok"
                 THEN LaneTransform(l, xcom[RawKey(l)], clock).rows ELSE <<>>)

\* What a lane owns.
LaneData(l) ==
    <<state[l], xcom[RawKey(l)], xcom[OutKey(l)], store[l], wrote[l], ran[l],
      invoked[l], exc[l]>>
LaneDataNext(l) ==
    <<state'[l], xcom'[RawKey(l)], xcom'[OutKey(l)], store'[l], wrote'[l], ran'[l],
      invoked'[l], exc'[l]>>

\* In a DAG run a step of one lane changes nothing another lane owns, and a
\* lane that has not ended is never held back by the state of another.
LanesShareNoState ==
    [][\A l \in Lanes :
         state'[l] # state[l] =>
             \A m \in Lanes \ {l} : LaneDataNext(m) = LaneData(m)]_vars

\* In a demo run every lane's pipeline is run, whatever the others did.
LanesIndependentDemo ==
    dexit # "running" => \A l \in Lanes : \E i \in 1..Len(dcalled) : dcalled[i] = l

\* C4: the three lanes never interact: a lane that fails or has no data does
\* not keep another lane from running, and a table's final rows depend on its
\* own lane alone.
C4_LanesNeverInteract == LanesIndependentDag /\ LanesIndependentDemo

StageOrder == <<"extract", "transform", "load">>
LaneTransitions ==
    { <<"Idle", "Extracting">>, <<"Extracting", "Transforming">>,
      <<"Transforming", "Loading">>, <<"Loading", "Done">>,
      <<"Extracting", "Failed">>, <<"Transforming", "Failed">>,
      <<"Loading", "Failed">> }

\* The tasks that ran in a lane are a prefix of extract, transform, load, and
\* the lane's state says which.
StagesRanInOrder ==
    \A l \in Lanes :
        /\ Len(ran[l]) <= 3
        /\ ran[l] = SubSeq(StageOrder, 1, Len(ran[l]))
        /\ state[l] \in {"Idle", "Extracting"} => ran[l] = <<>>
        /\ state[l] = "Transforming" => ran[l] = <<"extract">>
        /\ state[l] = "Loading" => ran[l] = <<"extract", "transform">>
        /\ state[l] = "Done" => ran[l] = StageOrder
        /\ state[l] = "Failed" => ran[l] # <<>>

RowSet(frame) == {frame.rows[i] : i \in 1..Len(frame.rows)}
Times == 0..MaxClock

\* A record the transformer's loop appends and its quality pass keeps.
StockWellFormed(stock) ==
    StockOutcome(stock).did = "row" /\ StockDropNa(StockRow(stock, 0))
CryptoWellFormed(crypto) ==
    CryptoOutcome(crypto).did = "row" /\ CryptoDropNa(CryptoRow(crypto, 0))
ForexWellFormed(item) ==
    ForexOutcome(item).did = "row" /\ ~PyFloat(item.rate).val.nan

\* C6: in every transformer a record that fails to transform is skipped on its
\* own and never aborts the batch: transform returns normally for any batch,
\* and every well-formed record of the batch has its row in the output.
C6_BadRecordSkipped ==
    (tout.exc # "pending" /\ tin.k # "null") =>
        /\ tout.exc = "none"
        /\ tkind = "stocks" =>
              \A i \in 1..Len(tin.items) :
                  StockWellFormed(tin.items[i]) =>
                      \E t \in Times :
                          StockClean(StockRow(tin.items[i], t)) \in RowSet(tout)
        /\ tkind = "crypto" =>
              \A i \in 1..Len(tin.items) :
                  CryptoWellFormed(tin.items[i]) =>
                      \E t \in Times :
                          CryptoClean(CryptoRow(tin.items[i], t)) \in RowSet(tout)
        /\ (tkind = "forex" /\ tin.base.k \notin {"null", "missing"}) =>
              \A i \in 1..Len(tin.items) :
                  ForexWellFormed(tin.items[i]) =>
                      \E t \in Times :
                          ForexRow(tin.base, DictGet(tin, "date", Null), tin.items[i], t)
                              \in RowSet(tout)

\* transform was given None or an empty list (an empty dict for forex).
EmptyInput ==
    \/ tin.k = "null"
    \/ tkind \in {"stocks", "crypto"} /\ tin.items = <<>>
    \/ tkind = "forex" /\ tin = EmptyDict

\* C7: each of the three transformers, called with an empty or a None input,
\* returns a frame of zero rows and never raises.
C7_EmptyInputEmptyFrame ==
    (tout.exc # "pending" /\ EmptyInput) => tout = Frame(<<>>)

\* No recognised key holds the price: no usd, no current_price, no
\* market_data.current_price.usd.
PriceAbsent(crypto) ==
    /\ crypto.top["usd"].k = "missing"
    /\ crypto.top["current_price"].k = "missing"
    /\ crypto.data["usd"].k = "missing"
    /\ crypto.data["current_price"].k = "missing"
    /\ crypto.mdusd["current_price"].k = "missing"

\* C8: the crypto transformer drops a record whose price is absent from every
\* recognised key, it gives it no default price: the output has no more rows
\* than the batch has records with a price.
C8_NoPriceDropped ==
    (tkind = "crypto" /\ tout.exc = "none" /\ tin.k = "list") =>
        Len(tout.rows) <=
            Cardinality({i \in 1..Len(tin.items) : ~PriceAbsent(tin.items[i])})

\* The quote names its symbol and has a '05. price'.
HasSymbolAndPrice(stock) ==
    /\ stock.symbol.k \notin {"missing", "null"}
    /\ stock.data.k = "dict"
    /\ stock.quote["05. price"].k # "missing"

\* C9: every row the stocks transformer returns has a symbol and a price, and
\* a quote whose symbol is missing or null or whose '05. price' is missing
\* gives no row: the output has no more rows than the batch has quotes with both.
C9_SymbolAndPriceRequired ==
    (tkind = "stocks" /\ tout.exc = "none" /\ tin.k = "list") =>
        /\ \A i \in 1..Len(tout.rows) :
              tout.rows[i].symbol.k \notin {"missing", "null"} /\ ~tout.rows[i].price.nan
        /\ Len(tout.rows) <=
              Cardinality({i \in 1..Len(tin.items) : HasSymbolAndPrice(tin.items[i])})

\* The quote is well-formed apart from its change percent.
GoodButChangePercent(stock) ==
    StockWellFormed([stock EXCEPT !.quote["10. change percent"] = PctStr(100)])

\* The number a change percent stands for: its value without the percent sign,
\* 0 when it is missing or does not parse.
ChangePercentOf(v) ==
    IF v.k \in {"num", "intstr", "decstr", "pctstr"} THEN F(v.n) ELSE F(0)

\* C10: the stocks transformer strips the percent sign of the change percent
\* and makes it a number ("1.23%" becomes 1.23), and a change percent that is
\* missing or does not parse becomes 0 while its record is kept.
C10_ChangePercentNormalised ==
    ( /\ tkind = "stocks" /\ tout.exc # "pending" /\ tin.k = "list"
      /\ \A i \in 1..Len(tin.items) : GoodButChangePercent(tin.items[i]) ) =>
        /\ tout.exc = "none"
        /\ Len(tout.rows) = Len(tin.items)
        /\ \A i \in 1..Len(tin.items) :
              tout.rows[i].change_percent =
                  ChangePercentOf(tin.items[i].quote["10. change percent"])

\* ------------------------------------------------------------- extraction
\* The extractor under test has returned or raised.
XDone(kind) == xkind = kind /\ xpc = "done"

\* The provider's answer holds a rate table.
HasRateTable(resp) ==
    resp.status = "ok" /\ resp.body.k = "dict" /\ ~resp.bodyEmpty /\ resp.rates.k = "dict"

Requested == {Text(xreq.names[i]) : i \in 1..Len(xreq.names)}
Provided(resp) == {resp.items[i].cur : i \in 1..Len(resp.items)}

\* C11: when the forex provider's answer holds a rate table, the rates returned
\* are exactly the requested currencies that the provider has, each once and
\* with the provider's rate; a requested currency the provider lacks is left
\* out, and nothing is raised and no failure is returned.
C11_RequestedAndProvided ==
    (XDone("forex") /\ HasRateTable(xresps[1])) =>
        /\ xout.exc = "none"
        /\ xout.val.k = "dict"
        /\ xout.val.rates.k = "dict"
        /\ {xout.val.items[i].cur : i \in 1..Len(xout.val.items)}
              = Requested \cap Provided(xresps[1])
        /\ \A i \in 1..Len(xout.val.items) :
              /\ \E j \in 1..Len(xresps[1].items) : xresps[1].items[j] = xout.val.items[i]
              /\ \A j \in 1..Len(xout.val.items) :
                    xout.val.items[j].cur = xout.val.items[i].cur => j = i

\* EUR and XXX were requested of a provider that has EUR and not XXX: one rate
\* came back.
C11_Witness ==
    /\ XDone("forex") /\ HasRateTable(xresps[1])
    /\ Requested = {Text("EUR"), Text("XXX")}
    /\ Text("EUR") \in Provided(xresps[1])
    /\ Len(xout.val.items) = 1

\* C12: in multi-symbol stock extraction no two requests follow one another
\* without a pause: the requests and pauses alternate, beginning with a
\* request, whether or not a request succeeded, and a run that returns has
\* made one request per symbol with one pause between each two.
C12_PauseBetweenCalls ==
    xkind = "stocks" =>
        /\ \A j \in 1..Len(xlog) :
              xlog[j].ev = (IF j % 2 = 1 THEN "get" ELSE "sleep")
        /\ (xpc = "done" /\ xout.exc = "none" /\ xreq.names # <<>>) =>
              Len(xlog) = 2 * Len(xreq.names) - 1

\* Two symbols were requested, the first request failed, and the run paused
\* once before the second.
C12_Witness ==
    /\ XDone("stocks") /\ Len(xreq.names) = 2
    /\ xresps[1].status = "error"
    /\ xlog = <<HttpGet(xreq.names[1]), Sleep, HttpGet(xreq.names[2])>>

\* The provider's answer holds a quote that is not empty.
HasQuote(resp) ==
    /\ resp.status = "ok" /\ resp.body.k = "dict" /\ ~resp.bodyEmpty
    /\ resp.gq.k = "dict" /\ ~QuoteEmpty(resp.quote)

\* The records of the symbols from position i on whose quote is not empty.
RECURSIVE QuotedFrom(_)
QuotedFrom(i) ==
    IF i > Len(xreq.names) THEN <<>>
    ELSE (IF HasQuote(xresps[i])
          THEN <<[symbol |-> Text(xreq.names[i]), data |-> xresps[i].gq,
                  quote |-> xresps[i].quote]>>
          ELSE <<>>) \o QuotedFrom(i + 1)

\* C13: multi-symbol stock extraction sends one request per requested symbol,
\* in the order of the list and none twice, never raises whatever a request is
\* answered, and returns the records of the symbols whose quote was not empty,
\* in the order requested, each under the requested symbol.
C13_OneRequestPerSymbol ==
    XDone("stocks") =>
        /\ xout.exc = "none"
        /\ SelectSeq(xlog, LAMBDA e : e.ev = "get")
              = [i \in 1..Len(xreq.names) |-> HttpGet(xreq.names[i])]
        /\ xout.val = PyList(QuotedFrom(1))

\* C14: extract_crypto_details sends a single request for all the coins; it
\* returns None when the fetch fails or the answer is not an array, and the
\* provider's array as it is when the answer is an array that is not empty.
C14_ArrayOrNone ==
    XDone("crypto") =>
        /\ xout.exc = "none"
        /\ xlog = <<HttpGet("coins/markets")>>
        /\ (xresps[1].status # "ok" \/ xresps[1].body.k # "list") => xout.val = PyNone
        /\ (xresps[1].status = "ok" /\ xresps[1].body.k = "list" /\ xresps[1].items # <<>>)
              => xout.val = PyList(xresps[1].items)

\* Two coins were asked for in one request and the provider's array of two
\* records came back as it was.
C14_Witness ==
    /\ XDone("crypto") /\ Len(xreq.names) = 2 /\ Len(xlog) = 1
    /\ Len(xresps[1].items) = 2 /\ xout.val = PyList(xresps[1].items)

\* ----------------------------------------------------------------- storage
\* The step is an operation on the database.
LoaderStep(op) == ln' = ln + 1 /\ lcall'.op = op

\* C15: loading an empty frame with load_stocks, load_crypto or load_forex
\* returns the count 0, is not an error, and writes nothing: every table has
\* the rows it had.
C15_EmptyFrameNoWrite ==
    [][(LoaderStep("load") /\ lcall'.df = <<>>) =>
          /\ lcall'.ret = [exc |-> "none", count |-> 0]
          /\ store' = store
          /\ tables' = tables]_vars

\* An empty frame was loaded into a table that holds rows, by a database that
\* would have refused a write.
C15_Witness ==
    /\ lcall.op = "load" /\ lcall.df = <<>> /\ ~lcall.ok
    /\ store[lcall.name] # <<>>
    /\ lcall.ret.count = 0

\* C17: create_tables, called any number of times on a connected manager or by
\* the construction of a DataLoader, raises nothing, leaves exactly the tables
\* stocks, crypto and forex, and leaves every stored row as it was.
C17_CreateTablesIdempotent ==
    [][(LoaderStep("create_tables") \/ LoaderStep("DataLoader")) =>
          /\ lcall'.ret.exc = "none"
          /\ tables' = Lanes
          /\ store' = store]_vars

\* create_tables ran as the third operation, after a load had stored rows in
\* tables that an earlier operation had created.
C17_Witness ==
    /\ lcall.op = "create_tables" /\ ln = 3
    /\ \E l \in Lanes : Len(store[l]) > Len(store0[l])

\* s is the beginning of t.
IsPrefix(s, t) == Len(s) <= Len(t) /\ SubSeq(t, 1, Len(s)) = s

\* C19: the store is append-only: whatever is loaded or created, every table
\* keeps the rows it had, unchanged and in place, so no table ever shrinks; a
\* load the database accepts adds exactly the rows of its frame after them, so a
\* frame loaded twice is stored twice.
C19_AppendOnly ==
    [][/\ \A l \in Lanes : IsPrefix(store[l], store'[l])
       /\ (LoaderStep("load") /\ lcall'.ret.exc = "none") =>
             store'[lcall'.name] = store[lcall'.name] \o lcall'.df]_vars

\* The same frame of two rows was loaded twice into a table that had a row: the
\* table holds the old row and the frame's rows twice.
C19_Witness ==
    \E l \in Lanes :
        /\ store0[l] # <<>>
        /\ store[l] = store0[l] \o FrameOf(l, 2) \o FrameOf(l, 2)

\* ------------------------------------------------------ the stocks lane, end to end
\* A quote as the provider gives it: every number a decimal string, the volume
\* an integer string, the change percent a decimal followed by a percent sign.
ValidQuote(stock) ==
    /\ stock.symbol.k = "text"
    /\ stock.data.k = "dict"
    /\ \A key \in {"02. open", "03. high", "04. low", "05. price", "08. previous close",
                    "09. change"} : stock.quote[key].k = "decstr"
    /\ stock.quote["06. volume"].k = "intstr"
    /\ stock.quote["10. change percent"].k = "pctstr"

\* The extraction result of the run is k >= 1 valid quotes.
ValidQuotes ==
    LET raw == xcom["stocks_raw_data"] IN
    /\ raw.k = "list"
    /\ raw.items # <<>>
    /\ \A i \in 1..Len(raw.items) : ValidQuote(raw.items[i])

\* The last k items of a sequence.
LastK(seq, k) == SubSeq(seq, Len(seq) - k + 1, Len(seq))

\* C16: in the stocks lane, when extraction returned k >= 1 valid quotes, the
\* transform task returns and pushes exactly k rows, the i-th with the symbol,
\* the price and the change percent (as a number, without its sign) of the
\* i-th quote; the loader handed these rows returns k when the database takes
\* the write, and once the lane is done the stocks table has exactly k rows
\* more than when the run began, the pushed rows at its end.
C16_StocksEndToEnd ==
    LET raw == xcom["stocks_raw_data"]
        out == xcom["stocks_transformed_data"]
        k == Len(raw.items)
    IN  (ValidQuotes /\ Len(ran["stocks"]) >= 2) =>
            /\ ~(state["stocks"] = "Failed" /\ Len(ran["stocks"]) = 2)
            /\ Len(out) = k
            /\ \A i \in 1..k :
                  /\ out[i].symbol = raw.items[i].symbol
                  /\ out[i].price = F(raw.items[i].quote["05. price"].n)
                  /\ out[i].change_percent = F(raw.items[i].quote["10. change percent"].n)
            /\ state["stocks"] = "Loading" =>
                  LoaderLoad("stocks", store["stocks"], out, TRUE).count = k
            /\ state["stocks"] = "Done" =>
                  /\ Len(store["stocks"]) = Len(store0["stocks"]) + k
                  /\ LastK(store["stocks"], k) = out

\* Both symbols were quoted, and the two rows went into a table that had a row.
C16_Witness ==
    /\ ValidQuotes
    /\ Len(xcom["stocks_raw_data"].items) = 2
    /\ state["stocks"] = "Done"
    /\ store0["stocks"] # <<>>
    /\ Len(store["stocks"]) = Len(store0["stocks"]) + 2
    /\ store["stocks"][Len(store["stocks"])].symbol = Text("MSFT")

\* ------------------------------------------------------------------ purity
\* A frame without the two columns that hold the time of the call.
Unstamped(frame) ==
    [frame EXCEPT !.rows = [i \in 1..Len(frame.rows) |->
                               [frame.rows[i] EXCEPT !.timestamp = 0, !.extracted_at = 0]]]

\* C18, as stated: transform is a pure function of its input: called on the
\* same raw records at any other time it returns (or raises) the same, with
\* identical rows and identical field values.
C18_PureAtAnyTime ==
    tout.exc # "pending" => \A t \in Times : LaneTransform(tkind, tin, t) = tout

\* C18, amended: called on the same raw records at any other time, transform
\* raises the same or returns a frame with the same rows in the same order and
\* the same value in every field except timestamp and extracted_at, which hold
\* the time of the call (a time that is not in the future).
C18_PureButForTimestamps ==
    tout.exc # "pending" =>
        \A t \in Times :
            /\ Unstamped(LaneTransform(tkind, tin, t)) = Unstamped(tout)
            /\ \A i \in 1..Len(tout.rows) :
                  /\ tout.rows[i].timestamp \in 0..clock
                  /\ tout.rows[i].extracted_at \in 0..clock

\* A transform that returned rows, called later than time 0.
C18_Witness ==
    /\ tout.exc = "none"
    /\ Len(tout.rows) = MaxBatch
    /\ clock > 0
    /\ tout.rows[1].timestamp = clock

\* ------------------------------------------------- crypto: optional fields
OptionalFields == {"market_cap", "total_volume", "price_change_24h"}

\* The keys a field is read from in the markets shape and in the simple shape.
FlatKeys(field) ==
    CASE field = "market_cap" -> <<"usd_market_cap", "market_cap">>
      [] field = "total_volume" -> <<"usd_24h_vol", "total_volume">>
      [] field = "price_change_24h" -> <<"usd_24h_change", "price_change_percentage_24h">>

Absent(v) == v.k \in {"missing", "null"}

\* The record gives no value for the field: in each place its shape keeps it,
\* the key is missing or its value is null.
FieldAbsent(crypto, field) ==
    IF HasMarketData(crypto)
    THEN IF field = "price_change_24h"
         THEN Absent(crypto.md["price_change_percentage_24h"])
         ELSE Absent(crypto.md[field]) \/ Absent(crypto.mdusd[field])
    ELSE LET d == IF crypto.top["data"].k = "missing" THEN crypto.top ELSE crypto.data IN
         Absent(d[FlatKeys(field)[1]]) /\ Absent(d[FlatKeys(field)[2]])

\* The record with a number put wherever an optional field is absent.
WithOptionals(crypto) ==
    IF HasMarketData(crypto)
    THEN [crypto EXCEPT
            !.md = [key \in MdKeys |->
                      IF key = "current_price" \/ ~Absent(crypto.md[key]) THEN crypto.md[key]
                      ELSE IF key = "price_change_percentage_24h" THEN Num(1) ELSE Dict],
            !.mdusd = [key \in MdUsdKeys |->
                      IF key = "current_price" \/ ~Absent(crypto.mdusd[key])
                      THEN crypto.mdusd[key] ELSE Num(1)]]
    ELSE LET fill(d) == [key \in DOMAIN d |->
                           IF \E f \in OptionalFields :
                                 FieldAbsent(crypto, f) /\ key = FlatKeys(f)[2]
                           THEN Num(1) ELSE d[key]]
         IN  IF crypto.top["data"].k = "missing"
             THEN [crypto EXCEPT !.top = fill(crypto.top)]
             ELSE [crypto EXCEPT !.data = fill(crypto.data)]

\* Symbol and price are present and good; only optional fields may be absent.
KeptWereItComplete(crypto) ==
    /\ crypto.self.k = "dict"
    /\ CryptoWellFormed(WithOptionals(crypto))

\* C20: a crypto record with symbol and current price present is kept whether
\* or not its market cap, total volume or 24h change is absent (key missing or
\* value null), and each absent field is 0 in its row.
C20_AbsentOptionalIsZero ==
    ( /\ tkind = "crypto" /\ tout.exc # "pending" /\ tin.k = "list"
      /\ \A i \in 1..Len(tin.items) : KeptWereItComplete(tin.items[i]) ) =>
        /\ tout.exc = "none"
        /\ Len(tout.rows) = Len(tin.items)
        /\ \A i \in 1..Len(tin.items) : \A f \in OptionalFields :
              FieldAbsent(tin.items[i], f) => tout.rows[i][f] = F(0)

\* ------------------------------------------------- forex: extract, then transform
\* The forex lane's transform task returned a frame for what its extraction gave.
ForexTransformed ==
    /\ xcom["forex_raw_data"].k = "dict"
    /\ Len(ran["forex"]) >= 2
    /\ ~(state["forex"] = "Failed" /\ Len(ran["forex"]) = 2)

\* A JSON number, or a string that spells one.
Numeric(v) == v.k \in {"num", "intstr", "decstr"}

\* C21: after one forex extraction and its transform, no two records have the
\* same target currency; every record has the requested base currency, one of
\* the requested target currencies and an exchange rate that is a number; and
\* a target whose rate the provider gave as null or as something that is not
\* a number has no record.
C21_OneRecordPerTarget ==
    LET raw == xcom["forex_raw_data"]
        out == xcom["forex_transformed_data"]
    IN  ForexTransformed =>
            /\ \A i, j \in 1..Len(out) :
                  i # j => out[i].target_currency # out[j].target_currency
            /\ \A i \in 1..Len(out) :
                  /\ out[i].base_currency = Text(BaseCurrency)
                  /\ \E c \in 1..Len(TargetCurrencies) :
                        out[i].target_currency = Text(TargetCurrencies[c])
                  /\ ~out[i].exchange_rate.nan
            /\ \A r \in 1..Len(raw.items) :
                  ~Numeric(raw.items[r].rate) =>
                      \A i \in 1..Len(out) : out[i].target_currency # raw.items[r].cur

\* ------------------------------------------------- crypto: the three shapes
\* The shape of a record, by the key that tells the shapes apart.
ShapeOf(crypto) ==
    CASE crypto.top["market_data"].k # "missing" -> "detailed"
      [] crypto.top["data"].k # "missing" -> "simple"
      [] OTHER -> "markets"

\* Where each shape keeps the price.
ProviderPrice(crypto) ==
    CASE ShapeOf(crypto) = "detailed" -> crypto.mdusd["current_price"]
      [] ShapeOf(crypto) = "simple" -> crypto.data["usd"]
      [] OTHER -> crypto.top["current_price"]

\* What the symbol is made of: the record's symbol, or the coin id of a
\* simple-price record, which has no symbol.
ProviderSymbol(crypto) ==
    IF ShapeOf(crypto) = "simple" THEN crypto.top["id"] ELSE crypto.top["symbol"]

\* A record as the provider gives it in one of the three shapes: an id, a
\* price that is a number, and numbers for the other figures.
WellFormedShape(crypto) ==
    /\ crypto.self.k = "dict"
    /\ crypto.top["id"].k = "text"
    /\ Numeric(ProviderPrice(crypto))
    /\ CASE ShapeOf(crypto) = "detailed" ->
              /\ crypto.top["market_data"].k = "dict"
              /\ crypto.top["symbol"].k = "text" /\ crypto.top["name"].k = "text"
              /\ \A key \in MdUsdKeys : crypto.md[key].k = "dict" /\ crypto.mdusd[key].k = "num"
              /\ crypto.md["price_change_percentage_24h"].k = "num"
         [] ShapeOf(crypto) = "simple" ->
              /\ crypto.top["data"].k = "dict"
              /\ \A key \in {"usd_market_cap", "usd_24h_vol", "usd_24h_change"} :
                    crypto.data[key].k = "num"
         [] OTHER ->
              /\ crypto.top["symbol"].k = "text" /\ crypto.top["name"].k = "text"
              /\ \A key \in {"market_cap", "total_volume", "price_change_percentage_24h"} :
                    crypto.top[key].k = "num"

\* C22: the crypto transformer takes records of the three provider shapes,
\* also mixed in one batch, and reads the price where the shape keeps it
\* (market_data.current_price.usd, data.usd, current_price): a batch of
\* well-formed records gives exactly one row per record, in order, whose
\* current_price is the provider's value and whose symbol is the provider's
\* symbol (the coin id, for a simple-price record) in upper case.
C22_ShapesReadFromMatchingPath ==
    ( /\ tkind = "crypto" /\ tout.exc # "pending" /\ tin.k = "list"
      /\ \A i \in 1..Len(tin.items) : WellFormedShape(tin.items[i]) ) =>
        /\ tout.exc = "none"
        /\ Len(tout.rows) = Len(tin.items)
        /\ \A i \in 1..Len(tin.items) :
              /\ tout.rows[i].current_price = F(ProviderPrice(tin.items[i]).n)
              /\ tout.rows[i].symbol = Text(Upper(ProviderSymbol(tin.items[i]).s))

\* A batch of a detailed record and a simple-price record went through.
C22_Witness ==
    /\ tkind = "crypto" /\ tout.exc = "none" /\ tin.k = "list"
    /\ Len(tin.items) = 2 /\ Len(tout.rows) = 2
    /\ WellFormedShape(tin.items[1]) /\ ShapeOf(tin.items[1]) = "detailed"
    /\ WellFormedShape(tin.items[2]) /\ ShapeOf(tin.items[2]) = "simple"
    /\ tout.rows[1].symbol = Text("BTC") /\ tout.rows[2].symbol = Text("ETHEREUM")
    /\ tout.rows[1].current_price # tout.rows[2].current_price

\* ------------------------------------------------- forex: what reaches the store
\* The rows the run added to a lane's table.
Added(l) == SubSeq(store[l], Len(store0[l]) + 1, Len(store[l]))

\* C23: every forex row the run stores has an exchange rate above zero; a
\* provider rate of zero or less never becomes a stored row.
C23_StoredRatePositive ==
    \A i \in 1..Len(Added("forex")) :
        /\ ~Added("forex")[i].exchange_rate.nan
        /\ Added("forex")[i].exchange_rate.n > 0

\* ------------------------------------------------- loads and the other tables
\* C24: a load writes its own lane's table only: whatever frame load_stocks,
\* load_crypto or load_forex is given, and whether the database takes the
\* write or refuses it, the other two tables have the rows they had, and no
\* table is created or dropped.
C24_LoadWritesOwnTable ==
    [][LoaderStep("load") =>
          /\ \A l \in Lanes \ {lcall'.name} : store'[l] = store[l]
          /\ tables' = tables]_vars

\* load_crypto stored a frame while the stocks and forex tables, which had
\* rows, kept exactly these.
C24_Witness ==
    /\ lcall.op = "load" /\ lcall.name = "crypto" /\ lcall.ret.count = 2
    /\ store["crypto"] # store0["crypto"]
    /\ store0["stocks"] # <<>> /\ store["stocks"] = store0["stocks"]
    /\ store0["forex"] # <<>> /\ store["forex"] = store0["forex"]

\* ------------------------------------------------------------ termination
\* The requests sent and the pauses taken so far.
Calls == Len(SelectSeq(xlog, LAMBDA e : e.ev = "get"))
Pauses == Len(SelectSeq(xlog, LAMBDA e : e.ev = "sleep"))

\* C25: when every call returns, each lane reaches Done or Failed in the end
\* and stays there, and the stocks extraction over N symbols is over after
\* exactly N requests and N - 1 pauses (none for N <= 1), the last event
\* being a request.
C25_EveryLaneEnds ==
    /\ \A l \in Lanes : <>[](state[l] \in Terminal)
    /\ [](xpc = "done" =>
            /\ Calls = Len(xreq.names)
            /\ Pauses = (IF Len(xreq.names) = 0 THEN 0 ELSE Len(xreq.names) - 1)
            /\ (xlog # <<>> => xlog[Len(xlog)].ev = "get"))


====
